---- MODULE Spec2Model ----
(***************************************************************************)
(* The calculator of myServiceGoBot (src/main.go, evalExpr and below):     *)
(* tokenize -> shuntingYard -> evalRPN.                                    *)
(*                                                                         *)
(* A Go string is a sequence of bytes.  A byte is written as the one-      *)
(* character string of its ASCII character; the two bytes of the UTF-8     *)
(* encoding of a non-ASCII character are written "xD1" and "x8F".  The     *)
(* text a user types is a sequence of characters (runes), and UTF8 turns   *)
(* it into the bytes evalExpr receives.                                    *)
(*                                                                         *)
(* A float64 is modelled by the rational it holds, as a pair <<n, d>> in   *)
(* lowest terms with d > 0.  Rounding is not modelled; the inputs of the   *)
(* model are far too short to overflow, so +-Inf and NaN (written          *)
(* <<1, 0>>, <<-1, 0>>, <<0, 0>>) are tested for as the code tests, and    *)
(* never arise.                                                            *)
(*                                                                         *)
(* Spec, SpecArith, SpecLead and SpecNeg follow one call of evalExpr step  *)
(* by step; SpecConc interleaves the steps of the calls of several         *)
(* callers; SpecCrypto follows the calls of encryptAESGCM and              *)
(* decryptAESGCM; SpecBot follows the loop of main through handleMessage   *)
(* and handleCallback.                                                     *)
(***************************************************************************)
EXTENDS Integers, Sequences, FiniteSets, TLC

\* ------------------------------------------------------------------------
\* Bounds of the model
\* ------------------------------------------------------------------------

\* Longest text, in characters, of the exhaustive specification Spec.
MaxLen == 4

\* Largest integer literal used as an operand by SpecArith.
MaxOperand == 4

\* Longest tail, in characters, after the leading operator in SpecLead.
MaxTail == 4

\* Longest term, in characters, after the unary minus in SpecNeg.
MaxTerm == 4

\* Concurrent callers of evalExpr, and calls each of them makes.
NumCallers == 2
MaxCalls == 2

\* Calls of encryptAESGCM, and the largest byte rand.Read writes.
MaxSealed == 2
MaxNonceByte == 1

\* Users who write to the bot.
NumUsers == 2

\* ------------------------------------------------------------------------
\* Characters and bytes
\* ------------------------------------------------------------------------

\* The non-ASCII character of the model, U+044F (a Cyrillic letter).
Cyr == "U+044F"

\* The characters a text of Spec is made of.
Runes == {"0", "2", ".", "+", "-", "*", "/", "(", ")", " ", "\t", "a", Cyr}

\* The bytes of one character in UTF-8: U+044F is D1 8F, ASCII is itself.
UTF8Rune(r) == IF r = Cyr THEN <<"xD1", "x8F">> ELSE <<r>>

RECURSIVE UTF8(_)
\* The bytes of a text.
UTF8(text) ==
    IF text = <<>> THEN <<>> ELSE UTF8Rune(Head(text)) \o UTF8(Tail(text))

\* c >= '0' && c <= '9'
IsDigit(c) == c \in {"0", "1", "2", "3", "4", "5", "6", "7", "8", "9"}

\* (c >= '0' && c <= '9') || c == '.'
IsNumChar(c) == IsDigit(c) \/ c = "."

\* c == '+' || c == '-' || c == '*' || c == '/'
IsOpChar(c) == c \in {"+", "-", "*", "/"}

\* What %q prints for a byte: the character whose code point is the byte's
\* value.  For an ASCII byte that is its own character; for the byte D1
\* it is U+00D1, for 8F it is U+008F.
Quote(c) ==
    CASE c = "xD1" -> "U+00D1"
      [] c = "x8F" -> "U+008F"
      [] OTHER -> c

\* ------------------------------------------------------------------------
\* Errors
\* ------------------------------------------------------------------------

\* The nil error.
nil == [msg |-> "", arg |-> ""]

\* The return statements of the pipeline that return an error.
ErrorSites ==
    {"tokenize:empty", "tokenize:default", "shuntingYard:rparen",
     "shuntingYard:drain", "evalRPN:number", "evalRPN:operands",
     "evalRPN:divide", "evalRPN:residue", "evalRPN:result"}

\* The message of the error each of them makes.
MsgAt(site) ==
    CASE site = "tokenize:empty" -> "empty expression"
      [] site = "tokenize:default" -> "bad char: "
      [] site = "shuntingYard:rparen" -> "mismatched parentheses"
      [] site = "shuntingYard:drain" -> "mismatched parentheses"
      [] site = "evalRPN:number" -> "bad number"
      [] site = "evalRPN:operands" -> "bad expression"
      [] site = "evalRPN:divide" -> "division by zero"
      [] site = "evalRPN:residue" -> "bad expression"
      [] site = "evalRPN:result" -> "bad result"

\* errors.New(msg) at a site; fmt.Errorf("bad char: %q", c) carries c.
ErrorAt(site, arg) == [msg |-> MsgAt(site), arg |-> arg]

\* ------------------------------------------------------------------------
\* Tokens
\* ------------------------------------------------------------------------

tNumber == 0
tOp == 1
tLParen == 2
tRParen == 3

token(typ, val) == [typ |-> typ, val |-> val]

\* ------------------------------------------------------------------------
\* tokenize
\* ------------------------------------------------------------------------

\* strings.ReplaceAll(s, " ", "")
StripSpaces(s) == SelectSeq(s, LAMBDA c : c # " ")

\* NumberEnd that stops after the first character of the run.
NumberEndSingle(s, j) == j

RECURSIVE NumberEnd(_, _)
\* The inner loop of the number case: the first index at or after j that
\* holds no digit and no '.', or Len(s) + 1.
NumberEnd(s, j) ==
    IF j <= Len(s) /\ IsNumChar(s[j]) THEN NumberEnd(s, j + 1) ELSE j

\* IsUnaryMinus without the case of a preceding left parenthesis.
IsUnaryMinusNoParen(toks, i) ==
    /\ toks[i].typ = tOp
    /\ toks[i].val = <<"-">>
    /\ (i = 1 \/ toks[i - 1].typ = tOp)

\* IsUnaryMinus that takes a '-' after a right parenthesis for unary too.
IsUnaryMinusAfterAnyParen(toks, i) ==
    /\ toks[i].typ = tOp
    /\ toks[i].val = <<"-">>
    /\ (i = 1 \/ toks[i - 1].typ = tOp \/ toks[i - 1].typ = tLParen
          \/ toks[i - 1].typ = tRParen)

\* The unary-minus test of rewriteUnaryMinus for toks[i] (1-based).
IsUnaryMinus(toks, i) ==
    /\ toks[i].typ = tOp
    /\ toks[i].val = <<"-">>
    /\ (i = 1 \/ toks[i - 1].typ = tOp \/ toks[i - 1].typ = tLParen)

RECURSIVE RewriteFrom(_, _, _)
\* The loop of rewriteUnaryMinus from index i with the output so far.
RewriteFrom(toks, i, out) ==
    IF i > Len(toks) THEN out
    ELSE LET out1 == IF IsUnaryMinus(toks, i)
                     THEN Append(out, token(tNumber, <<"0">>))
                     ELSE out
         IN  RewriteFrom(toks, i + 1, Append(out1, toks[i]))

rewriteUnaryMinus(toks) == RewriteFrom(toks, 1, <<>>)

RECURSIVE ScanFrom(_, _, _)
\* The scanning loop of tokenize from index i with the tokens so far.
ScanFrom(s, i, out) ==
    IF i > Len(s) THEN [err |-> nil, site |-> "", toks |-> out]
    ELSE LET c == s[i] IN
         CASE IsNumChar(c) ->
                LET j == NumberEnd(s, i + 1)
                IN  ScanFrom(s, j, Append(out, token(tNumber, SubSeq(s, i, j - 1))))
           [] IsOpChar(c) -> ScanFrom(s, i + 1, Append(out, token(tOp, <<c>>)))
           [] c = "(" -> ScanFrom(s, i + 1, Append(out, token(tLParen, <<"(">>)))
           [] c = ")" -> ScanFrom(s, i + 1, Append(out, token(tRParen, <<")">>)))
           [] OTHER -> [err |-> ErrorAt("tokenize:default", Quote(c)),
                        site |-> "tokenize:default", toks |-> <<>>]

\* tokenize that drops the characters it does not know and goes on.
tokenizeSkipping(s0) ==
    LET s == SelectSeq(StripSpaces(s0),
                       LAMBDA c : IsNumChar(c) \/ IsOpChar(c) \/ c \in {"(", ")"})
    IN  IF s = <<>>
        THEN [err |-> ErrorAt("tokenize:empty", ""), site |-> "tokenize:empty",
              toks |-> <<>>]
        ELSE [err |-> nil, site |-> "",
              toks |-> rewriteUnaryMinus(ScanFrom(s, 1, <<>>).toks)]

tokenize(s0) ==
    LET s == StripSpaces(s0) IN
    IF s = <<>>
    THEN [err |-> ErrorAt("tokenize:empty", ""), site |-> "tokenize:empty",
          toks |-> <<>>]
    ELSE LET r == ScanFrom(s, 1, <<>>) IN
         IF r.err # nil THEN r
         ELSE [err |-> nil, site |-> "", toks |-> rewriteUnaryMinus(r.toks)]

\* ------------------------------------------------------------------------
\* shuntingYard
\* ------------------------------------------------------------------------

\* prec with one level for the four operators.
precFlat(op) ==
    CASE op \in {<<"+">>, <<"-">>, <<"*">>, <<"/">>} -> 1
      [] OTHER -> 0

prec(op) ==
    CASE op \in {<<"+">>, <<"-">>} -> 1
      [] op \in {<<"*">>, <<"/">>} -> 2
      [] OTHER -> 0

\* Yields with > for >=.
YieldsStrict(top, t) == top.typ = tOp /\ prec(top.val) > prec(t.val)

\* The test of the operator case: the stack's top is emitted before t is
\* pushed.
Yields(top, t) == top.typ = tOp /\ prec(top.val) >= prec(t.val)

\* stack[:len(stack)-1]
Pop(stack) == SubSeq(stack, 1, Len(stack) - 1)

\* stack[len(stack)-1]
Top(stack) == stack[Len(stack)]

RECURSIVE PopYielding(_, _, _)
\* The loop of the operator case.
PopYielding(t, out, stack) ==
    IF Len(stack) > 0 /\ Yields(Top(stack), t)
    THEN PopYielding(t, Append(out, Top(stack)), Pop(stack))
    ELSE [out |-> out, stack |-> stack]

RECURSIVE PopToLParenDropping(_, _)
\* PopToLParen that discards what it pops instead of emitting it.
PopToLParenDropping(out, stack) ==
    IF Len(stack) > 0
    THEN IF Top(stack).typ = tLParen
         THEN [found |-> TRUE, out |-> out, stack |-> Pop(stack)]
         ELSE PopToLParenDropping(out, Pop(stack))
    ELSE [found |-> FALSE, out |-> out, stack |-> stack]

RECURSIVE PopToLParen(_, _)
\* The loop of the right-parenthesis case.
PopToLParen(out, stack) ==
    IF Len(stack) > 0
    THEN IF Top(stack).typ = tLParen
         THEN [found |-> TRUE, out |-> out, stack |-> Pop(stack)]
         ELSE PopToLParen(Append(out, Top(stack)), Pop(stack))
    ELSE [found |-> FALSE, out |-> out, stack |-> stack]

\* One iteration of the loop over the tokens: the switch on t.typ.
ShuntToken(t, out, stack) ==
    CASE t.typ = tNumber ->
            [err |-> nil, site |-> "", out |-> Append(out, t), stack |-> stack]
      [] t.typ = tOp ->
            LET r == PopYielding(t, out, stack)
            IN  [err |-> nil, site |-> "", out |-> r.out,
                 stack |-> Append(r.stack, t)]
      [] t.typ = tLParen ->
            [err |-> nil, site |-> "", out |-> out, stack |-> Append(stack, t)]
      [] t.typ = tRParen ->
            LET r == PopToLParen(out, stack)
            IN  IF ~r.found
                THEN [err |-> ErrorAt("shuntingYard:rparen", ""),
                      site |-> "shuntingYard:rparen", out |-> r.out,
                      stack |-> r.stack]
                ELSE [err |-> nil, site |-> "", out |-> r.out,
                      stack |-> r.stack]

\* IsParen that looks for a right parenthesis only.
IsParenRightOnly(top) == top.typ = tRParen

\* The test of the final loop on a popped entry.
IsParen(top) == top.typ = tLParen \/ top.typ = tRParen

RECURSIVE Drain(_, _)
\* The final loop: pop what is left on the stack to the output.
Drain(out, stack) ==
    IF Len(stack) > 0
    THEN IF IsParen(Top(stack))
         THEN [err |-> ErrorAt("shuntingYard:drain", ""),
               site |-> "shuntingYard:drain", out |-> out,
               stack |-> Pop(stack)]
         ELSE Drain(Append(out, Top(stack)), Pop(stack))
    ELSE [err |-> nil, site |-> "", out |-> out, stack |-> stack]

RECURSIVE ShuntFrom(_, _, _, _)
\* The loop over the tokens from index i, then the final loop.
ShuntFrom(toks, i, out, stack) ==
    IF i > Len(toks)
    THEN LET d == Drain(out, stack) IN
         IF d.err # nil THEN [err |-> d.err, site |-> d.site, out |-> <<>>]
         ELSE [err |-> nil, site |-> "", out |-> d.out]
    ELSE LET r == ShuntToken(toks[i], out, stack) IN
         IF r.err # nil THEN [err |-> r.err, site |-> r.site, out |-> <<>>]
         ELSE ShuntFrom(toks, i + 1, r.out, r.stack)

shuntingYard(toks) == ShuntFrom(toks, 1, <<>>, <<>>)

\* ------------------------------------------------------------------------
\* float64 values, as rationals
\* ------------------------------------------------------------------------

Abs(n) == IF n < 0 THEN -n ELSE n

RECURSIVE GCD(_, _)
GCD(a, b) == IF b = 0 THEN a ELSE GCD(b, a % b)

\* The rational n/d (d # 0) in lowest terms with a positive denominator.
Rat(n, d) ==
    LET g == GCD(Abs(n), Abs(d))
        sgn == IF d < 0 THEN -1 ELSE 1
    IN  <<sgn * (n \div g), sgn * (d \div g)>>

Zero == <<0, 1>>

\* a + b, a - b, a * b, a / b of float64
FAdd(a, b) == Rat(a[1] * b[2] + b[1] * a[2], a[2] * b[2])
FSub(a, b) == Rat(a[1] * b[2] - b[1] * a[2], a[2] * b[2])
FMul(a, b) == Rat(a[1] * b[1], a[2] * b[2])
FDiv(a, b) == Rat(a[1] * b[2], a[2] * b[1])

\* math.IsInf(v, 0) and math.IsNaN(v)
IsInf(v) == v[2] = 0 /\ v[1] # 0
IsNaN(v) == v[2] = 0 /\ v[1] = 0

DigitValue(c) ==
    CASE c = "0" -> 0 [] c = "1" -> 1 [] c = "2" -> 2 [] c = "3" -> 3
      [] c = "4" -> 4 [] c = "5" -> 5 [] c = "6" -> 6 [] c = "7" -> 7
      [] c = "8" -> 8 [] c = "9" -> 9

RECURSIVE DigitsValue(_, _)
\* The integer a run of decimal digits writes, after the value acc.
DigitsValue(ds, acc) ==
    IF ds = <<>> THEN acc
    ELSE DigitsValue(Tail(ds), 10 * acc + DigitValue(Head(ds)))

RECURSIVE Pow10(_)
Pow10(k) == IF k = 0 THEN 1 ELSE 10 * Pow10(k - 1)

\* strconv.ParseFloat(val, 64) of a run of digits and '.': it parses when the
\* run has at least one digit and at most one '.', as the digits over ten to
\* the number of digits after the '.'.
ParseFloat(val) ==
    LET digits == SelectSeq(val, IsDigit)
        dots == {i \in 1..Len(val) : val[i] = "."}
    IN  IF Cardinality(dots) > 1 \/ digits = <<>>
        THEN [ok |-> FALSE, v |-> Zero]
        ELSE LET frac == IF dots = {} THEN 0
                         ELSE Len(val) - (CHOOSE i \in dots : TRUE)
             IN  [ok |-> TRUE, v |-> Rat(DigitsValue(digits, 0), Pow10(frac))]

\* ------------------------------------------------------------------------
\* evalRPN
\* ------------------------------------------------------------------------

\* DivideByZero that tests the left-hand operand.
DivideByZeroLeft(a, b) == a = Zero

\* The test of the '/' case on the operands a and b.
DivideByZero(a, b) == b = Zero

\* The switch on t.val, once '/' has a divisor.
Apply(op, a, b) ==
    CASE op = <<"+">> -> FAdd(a, b)
      [] op = <<"-">> -> FSub(a, b)
      [] op = <<"*">> -> FMul(a, b)
      [] op = <<"/">> -> FDiv(a, b)
      [] OTHER -> Zero

\* One iteration of the loop over the postfix tokens.
EvalToken(t, st) ==
    IF t.typ = tNumber
    THEN LET p == ParseFloat(t.val) IN
         IF ~p.ok
         THEN [err |-> ErrorAt("evalRPN:number", ""), site |-> "evalRPN:number",
               st |-> st]
         ELSE [err |-> nil, site |-> "", st |-> Append(st, p.v)]
    ELSE IF t.typ = tOp
    THEN IF Len(st) < 2
         THEN [err |-> ErrorAt("evalRPN:operands", ""),
               site |-> "evalRPN:operands", st |-> st]
         ELSE LET b == st[Len(st)]
                  a == st[Len(st) - 1]
                  rest == SubSeq(st, 1, Len(st) - 2)
              IN  IF t.val = <<"/">> /\ DivideByZero(a, b)
                  THEN [err |-> ErrorAt("evalRPN:divide", ""),
                        site |-> "evalRPN:divide", st |-> rest]
                  ELSE [err |-> nil, site |-> "",
                        st |-> Append(rest, Apply(t.val, a, b))]
    ELSE [err |-> nil, site |-> "", st |-> st]

\* EvalReturn that returns the topmost value whenever there is one.
EvalReturnTop(st) ==
    IF Len(st) = 0
    THEN [val |-> Zero, err |-> ErrorAt("evalRPN:residue", ""),
          site |-> "evalRPN:residue"]
    ELSE [val |-> st[Len(st)], err |-> nil, site |-> "evalRPN:return"]

\* What evalRPN returns after the loop.
EvalReturn(st) ==
    IF Len(st) # 1
    THEN [val |-> Zero, err |-> ErrorAt("evalRPN:residue", ""),
          site |-> "evalRPN:residue"]
    ELSE IF IsInf(st[1]) \/ IsNaN(st[1])
    THEN [val |-> Zero, err |-> ErrorAt("evalRPN:result", ""),
          site |-> "evalRPN:result"]
    ELSE [val |-> st[1], err |-> nil, site |-> "evalRPN:return"]

RECURSIVE EvalFrom(_, _, _)
\* The loop over the postfix tokens from index i, then the return.
EvalFrom(toks, i, st) ==
    IF i > Len(toks) THEN EvalReturn(st)
    ELSE LET r == EvalToken(toks[i], st) IN
         IF r.err # nil THEN [val |-> Zero, err |-> r.err, site |-> r.site]
         ELSE EvalFrom(toks, i + 1, r.st)

evalRPN(toks) == EvalFrom(toks, 1, <<>>)

\* ------------------------------------------------------------------------
\* evalExpr
\* ------------------------------------------------------------------------

evalExpr(s) ==
    LET t == tokenize(s) IN
    IF t.err # nil THEN [val |-> Zero, err |-> t.err, site |-> t.site]
    ELSE LET p == shuntingYard(t.toks) IN
         IF p.err # nil THEN [val |-> Zero, err |-> p.err, site |-> p.site]
         ELSE evalRPN(p.out)

\* ------------------------------------------------------------------------
\* One call of evalExpr, stage by stage
\* ------------------------------------------------------------------------

VARIABLES
    expr,     \* the text handed to evalExpr, as characters
    pc,       \* "tokenize", "shuntingYard", "evalRPN" or "done"
    toks,     \* evalExpr's toks
    ti,       \* shuntingYard: index of the next token of toks
    out,      \* shuntingYard's out
    stack,    \* shuntingYard's stack
    rpn,      \* evalExpr's rpn
    ei,       \* evalRPN: index of the next token of rpn
    st,       \* evalRPN's st
    val,      \* the float64 evalExpr returns
    err,      \* the error evalExpr returns
    site      \* the return statement that decided the outcome

VARIABLES
    calls,    \* concurrent callers of evalExpr: caller -> locals of its call
    round     \* concurrent callers of evalExpr: caller -> calls made so far

VARIABLES
    sealed,   \* the calls of encryptAESGCM made so far, with what they returned
    opened    \* what the last call of decryptAESGCM was given and returned

VARIABLES
    states,   \* main's states: user ID -> Mode, for the users it has an entry for
    notes,    \* the rows of the table notes
    upd,      \* the update the loop of main has handled last
    sent      \* the messages bot.Send was given while handling it

\* The variables of the one call of evalExpr followed alone.
single == <<expr, pc, toks, ti, out, stack, rpn, ei, st, val, err, site>>

concVars == <<calls, round>>
encVars == <<sealed, opened>>
botVars == <<states, notes, upd, sent>>

\* The state outside the one call of evalExpr that the variables above follow.
others == <<concVars, encVars, botVars>>

vars == <<expr, pc, toks, ti, out, stack, rpn, ei, st, val, err, site, others>>

\* No concurrent caller of evalExpr.
NoCallers == calls = <<>> /\ round = <<>>

\* No call of encryptAESGCM or decryptAESGCM.
NoCrypto == sealed = <<>> /\ opened = <<>>

\* No update received: the map states and the table notes are empty.
NoUpdates == states = <<>> /\ notes = <<>> /\ upd = <<>> /\ sent = <<>>

\* Nothing but the one call of evalExpr is going on.
Idle == NoCallers /\ NoCrypto /\ NoUpdates

\* All texts of at most n characters of the set cs.
Texts(cs, n) == UNION {[1..k -> cs] : k \in 0..n}

\* The locals of a call that has just been entered with the text e.
Entered(e) ==
    /\ expr = e
    /\ pc = "tokenize"
    /\ toks = <<>>
    /\ ti = 1
    /\ out = <<>>
    /\ stack = <<>>
    /\ rpn = <<>>
    /\ ei = 1
    /\ st = <<>>
    /\ val = Zero
    /\ err = nil
    /\ site = ""

Init == Idle /\ \E e \in Texts(Runes, MaxLen) : Entered(e)

\* evalExpr returns 0 and the error e made at the return statement s.
Fail(e, s) ==
    /\ pc' = "done"
    /\ val' = Zero
    /\ err' = e
    /\ site' = s

\* toks, err := tokenize(s)
Tokenize ==
    /\ pc = "tokenize"
    /\ LET r == tokenize(UTF8(expr)) IN
       IF r.err # nil
       THEN Fail(r.err, r.site) /\ UNCHANGED toks
       ELSE pc' = "shuntingYard" /\ toks' = r.toks /\ UNCHANGED <<val, err, site>>
    /\ UNCHANGED <<expr, ti, out, stack, rpn, ei, st, others>>

\* shuntingYard: one iteration of the loop over toks.
ShuntStep ==
    /\ pc = "shuntingYard"
    /\ ti <= Len(toks)
    /\ LET r == ShuntToken(toks[ti], out, stack) IN
       IF r.err # nil
       THEN Fail(r.err, r.site) /\ out' = r.out /\ stack' = r.stack /\ UNCHANGED ti
       ELSE /\ out' = r.out
            /\ stack' = r.stack
            /\ ti' = ti + 1
            /\ UNCHANGED <<pc, val, err, site>>
    /\ UNCHANGED <<expr, toks, rpn, ei, st, others>>

\* shuntingYard: the final loop and the return; evalExpr then calls evalRPN.
ShuntDrain ==
    /\ pc = "shuntingYard"
    /\ ti > Len(toks)
    /\ LET r == Drain(out, stack) IN
       /\ out' = r.out
       /\ stack' = r.stack
       /\ IF r.err # nil
          THEN Fail(r.err, r.site) /\ UNCHANGED rpn
          ELSE pc' = "evalRPN" /\ rpn' = r.out /\ UNCHANGED <<val, err, site>>
    /\ UNCHANGED <<expr, toks, ti, ei, st, others>>

\* evalRPN: one iteration of the loop over the postfix tokens.
EvalStep ==
    /\ pc = "evalRPN"
    /\ ei <= Len(rpn)
    /\ LET r == EvalToken(rpn[ei], st) IN
       IF r.err # nil
       THEN Fail(r.err, r.site) /\ st' = r.st /\ UNCHANGED ei
       ELSE st' = r.st /\ ei' = ei + 1 /\ UNCHANGED <<pc, val, err, site>>
    /\ UNCHANGED <<expr, toks, ti, out, stack, rpn, others>>

\* evalRPN: the checks after the loop and the return.
EvalFinish ==
    /\ pc = "evalRPN"
    /\ ei > Len(rpn)
    /\ LET r == EvalReturn(st) IN
       /\ pc' = "done"
       /\ val' = r.val
       /\ err' = r.err
       /\ site' = r.site
    /\ UNCHANGED <<expr, toks, ti, out, stack, rpn, ei, st, others>>

Next == Tokenize \/ ShuntStep \/ ShuntDrain \/ EvalStep \/ EvalFinish

Spec == Init /\ [][Next]_vars

\* ------------------------------------------------------------------------
\* Calls on arithmetic of three operands
\* ------------------------------------------------------------------------

DigitChar(n) ==
    CASE n = 0 -> "0" [] n = 1 -> "1" [] n = 2 -> "2" [] n = 3 -> "3"
      [] n = 4 -> "4" [] n = 5 -> "5" [] n = 6 -> "6" [] n = 7 -> "7"
      [] n = 8 -> "8" [] n = 9 -> "9"

RECURSIVE Decimal(_)
\* The decimal literal of a natural number.
Decimal(n) ==
    IF n < 10 THEN <<DigitChar(n)>>
    ELSE Append(Decimal(n \div 10), DigitChar(n % 10))

\* The operand literals: the integers up to MaxOperand, and 1.5.
Numerals == {Decimal(n) : n \in 0..MaxOperand} \cup {<<"1", ".", "5">>}

OpChars == {"+", "-", "*", "/"}

\* a o1 b o2 c, (a o1 b) o2 c and a o1 (b o2 c)
ArithTexts ==
    UNION {
      { a \o <<o1>> \o b \o <<o2>> \o c,
        <<"(">> \o a \o <<o1>> \o b \o <<")", o2>> \o c,
        a \o <<o1, "(">> \o b \o <<o2>> \o c \o <<")">> }
      : <<a, b, c, o1, o2>> \in
            Numerals \X Numerals \X Numerals \X OpChars \X OpChars }

InitArith == Idle /\ \E e \in ArithTexts : Entered(e)

SpecArith == InitArith /\ [][Next]_vars

\* ------------------------------------------------------------------------
\* Calls on texts that begin with a binary operator other than '-'
\* ------------------------------------------------------------------------

LeadTexts ==
    { <<o>> \o t : <<o, t>> \in
          {"+", "*", "/"} \X Texts({"2", "-", "(", ")"}, MaxTail) }

InitLead == Idle /\ \E e \in LeadTexts : Entered(e)

SpecLead == InitLead /\ [][Next]_vars

\* ------------------------------------------------------------------------
\* Calls on texts with a unary minus at the start or after a '('
\* ------------------------------------------------------------------------

\* -E, (-E and 3*(-E
NegTexts ==
    { h \o <<"-">> \o t : <<h, t>> \in
          {<<>>, <<"(">>, <<"3", "*", "(">>}
              \X Texts({"3", "+", "-", "(", ")"}, MaxTerm) }

InitNeg == Idle /\ \E e \in NegTexts : Entered(e)

SpecNeg == InitNeg /\ [][Next]_vars

\* ------------------------------------------------------------------------
\* Vocabulary of the properties
\* ------------------------------------------------------------------------

\* The call has returned the number v.
Returned(v) == pc = "done" /\ err = nil /\ val = v

\* The call has returned an error with the message m.
Failed(m) == pc = "done" /\ err # nil /\ err.msg = m

\* The accepted alphabet: 0-9 . + - * / ( )
Accepted ==
    {"0", "1", "2", "3", "4", "5", "6", "7", "8", "9", ".",
     "+", "-", "*", "/", "(", ")"}

\* Space, tab, newline and carriage return.
Whitespace == {" ", "\t", "\n", "\r"}

\* A text with every whitespace character removed.
StripWhitespace(text) == SelectSeq(text, LAMBDA c : c \notin Whitespace)

\* A literal the evaluator reads as a number, and the number.
IsNumeral(a) ==
    /\ a # <<>>
    /\ \A i \in 1..Len(a) : IsNumChar(a[i])
    /\ ParseFloat(a).ok
Num(a) == ParseFloat(a).v

\* The kind of failure, in the words of the error taxonomy, of each return
\* statement that returns an error.
KindOf(s) ==
    CASE s = "tokenize:empty" -> "EmptyExpression"
      [] s = "tokenize:default" -> "UnexpectedCharacter"
      [] s = "shuntingYard:rparen" -> "MismatchedParentheses"
      [] s = "shuntingYard:drain" -> "MismatchedParentheses"
      [] s = "evalRPN:number" -> "InvalidNumber"
      [] s = "evalRPN:operands" -> "InsufficientOperands"
      [] s = "evalRPN:divide" -> "DivisionByZero"
      [] s = "evalRPN:residue" -> "MalformedExpression"
      [] s = "evalRPN:result" -> "InvalidResult"

\* Arithmetic as it is written: a value, or undefined where a divisor is zero.
Value(v) == [def |-> TRUE, v |-> v]
Undefined == [def |-> FALSE, v |-> Zero]
Bin(op, x, y) ==
    IF ~x.def \/ ~y.def THEN Undefined
    ELSE CASE op = "+" -> Value(FAdd(x.v, y.v))
           [] op = "-" -> Value(FSub(x.v, y.v))
           [] op = "*" -> Value(FMul(x.v, y.v))
           [] op = "/" -> IF y.v = Zero THEN Undefined ELSE Value(FDiv(x.v, y.v))

\* The call has ended as the arithmetic x asks: with its value, or with
\* "division by zero" where it is undefined.
EndedAs(x) ==
    IF x.def THEN Returned(x.v) ELSE Failed("division by zero")

\* Precedence as it is written: + and - bind less than * and /.
Binds(o) == IF o \in {"*", "/"} THEN 2 ELSE 1

\* The positions of the operator characters of a text.
OpPositions(text) == {i \in 1..Len(text) : IsOpChar(text[i])}

\* The digits and points of a stretch of a text.
Literal(text, from, to) == SelectSeq(SubSeq(text, from, to), IsNumChar)

\* ------------------------------------------------------------------------
\* C1
\* ------------------------------------------------------------------------

\* The text is a op -b at position p: a literal, '*' or '/', '-', a literal.
IsNegatedOperand(text, p) ==
    /\ 1 < p /\ p + 1 < Len(text)
    /\ text[p] \in {"*", "/"}
    /\ text[p + 1] = "-"
    /\ IsNumeral(SubSeq(text, 1, p - 1))
    /\ IsNumeral(SubSeq(text, p + 2, Len(text)))

\* C1: a unary minus directly after a binary operator negates only the
\* operand after it: for numbers a and b and op in {*, /}, the call on
\* "a op -b" returns a op (-b) (and "2/-1" returns -2 rather than failing).
C1_NegatedOperand ==
    \A p \in 1..Len(expr) :
        (pc = "done" /\ IsNegatedOperand(expr, p)) =>
            LET a == Value(Num(SubSeq(expr, 1, p - 1)))
                b == Value(Num(SubSeq(expr, p + 2, Len(expr))))
            IN  EndedAs(Bin(expr[p], a, Bin("-", Value(Zero), b)))

\* ------------------------------------------------------------------------
\* C2 and C3
\* ------------------------------------------------------------------------

\* The text has two operators, its operands being a, b and c in this order.
FirstOp(text) == CHOOSE p \in OpPositions(text) : \A q \in OpPositions(text) : p <= q
SecondOp(text) == CHOOSE q \in OpPositions(text) : \A p \in OpPositions(text) : p <= q
OperandA(text) == Value(Num(Literal(text, 1, FirstOp(text) - 1)))
OperandB(text) == Value(Num(Literal(text, FirstOp(text) + 1, SecondOp(text) - 1)))
OperandC(text) == Value(Num(Literal(text, SecondOp(text) + 1, Len(text))))

\* (a o1 b) o2 c and a o1 (b o2 c), as written.
LeftFirst(text) ==
    Bin(text[SecondOp(text)],
        Bin(text[FirstOp(text)], OperandA(text), OperandB(text)),
        OperandC(text))
RightFirst(text) ==
    Bin(text[FirstOp(text)],
        OperandA(text),
        Bin(text[SecondOp(text)], OperandB(text), OperandC(text)))

\* The three shapes of SpecArith.
IsFlat(text) ==
    /\ Cardinality(OpPositions(text)) = 2
    /\ \A i \in 1..Len(text) : text[i] \notin {"(", ")"}
IsLeftGrouped(text) ==
    Cardinality(OpPositions(text)) = 2 /\ text[1] = "("
IsRightGrouped(text) ==
    Cardinality(OpPositions(text)) = 2 /\ text[Len(text)] = ")" /\ text[1] # "("

\* C2: operator precedence and explicit parentheses are honoured: for all
\* numbers a, b, c the call on "a+b*c" returns a+(b*c) and the call on
\* "(a+b)*c" returns (a+b)*c, likewise with - for + and / for *; the operator
\* that binds tighter is applied first wherever it stands, and a
\* parenthesised pair is applied first whatever its operator.
C2_Precedence ==
    pc = "done" =>
        /\ (IsFlat(expr) /\ Binds(expr[SecondOp(expr)]) > Binds(expr[FirstOp(expr)]))
               => EndedAs(RightFirst(expr))
        /\ (IsFlat(expr) /\ Binds(expr[FirstOp(expr)]) > Binds(expr[SecondOp(expr)]))
               => EndedAs(LeftFirst(expr))
        /\ IsLeftGrouped(expr) => EndedAs(LeftFirst(expr))
        /\ IsRightGrouped(expr) => EndedAs(RightFirst(expr))

\* The call on "2+3*4" has returned 14.
C2_Witness == expr = <<"2", "+", "3", "*", "4">> /\ Returned(<<14, 1>>)

\* C3: operators of equal precedence associate left to right: for all
\* numbers a, b, c the call on "a-b-c" returns (a-b)-c and the call on
\* "a/b/c" returns (a/b)/c.
C3_LeftAssociative ==
    (pc = "done" /\ IsFlat(expr)
        /\ Binds(expr[FirstOp(expr)]) = Binds(expr[SecondOp(expr)]))
            => EndedAs(LeftFirst(expr))

\* The call on "4-3-2" has returned -1 (and not 3).
C3_Witness == expr = <<"4", "-", "3", "-", "2">> /\ Returned(<<-1, 1>>)

\* ------------------------------------------------------------------------
\* C4
\* ------------------------------------------------------------------------

\* C4: whitespace is never significant: the call on a text ends as the call
\* on the text with every space, tab, newline and carriage return removed
\* (same value, or same error), and no whitespace character is ever reported
\* as an unexpected character.
C4_WhitespaceInsignificant ==
    pc = "done" =>
        LET r == evalExpr(UTF8(StripWhitespace(expr))) IN
        /\ val = r.val
        /\ err = r.err
        /\ err.msg = "bad char: " => err.arg \notin Whitespace

\* ------------------------------------------------------------------------
\* C5
\* ------------------------------------------------------------------------

\* C5: a failure distinguishes the eight kinds of error: no return statement
\* of another kind makes the error value this failure carries.
C5_KindsDistinct ==
    (pc = "done" /\ err # nil) =>
        \A s \in ErrorSites :
            KindOf(s) # KindOf(site) => MsgAt(s) # err.msg

\* ------------------------------------------------------------------------
\* C6
\* ------------------------------------------------------------------------

RECURSIVE DepthFrom(_, _, _)
\* The number of parentheses open at the end of a text read from index i
\* with d open, or -1 once a ')' is met with none open.
DepthFrom(text, i, d) ==
    IF i > Len(text) THEN d
    ELSE IF text[i] = "(" THEN DepthFrom(text, i + 1, d + 1)
    ELSE IF text[i] = ")"
         THEN IF d = 0 THEN -1 ELSE DepthFrom(text, i + 1, d - 1)
    ELSE DepthFrom(text, i + 1, d)

\* Every ')' closes a '(' before it and every '(' is closed.
Balanced(text) == DepthFrom(text, 1, 0) = 0

\* C6: for a text made only of accepted characters, the call fails with
\* "mismatched parentheses" exactly when the parentheses are unbalanced.
C6_MismatchedIffUnbalanced ==
    (pc = "done" /\ \A i \in 1..Len(expr) : expr[i] \in Accepted) =>
        (Failed("mismatched parentheses") <=> ~Balanced(expr))

\* The call on "(2+2" has failed with "mismatched parentheses".
C6_Witness ==
    expr = <<"(", "2", "+", "2">> /\ Failed("mismatched parentheses")

\* ------------------------------------------------------------------------
\* C7
\* ------------------------------------------------------------------------

\* The evaluator is at a '/' that has both its operands.
AtDivision ==
    /\ pc = "evalRPN"
    /\ ei <= Len(rpn)
    /\ rpn[ei] = token(tOp, <<"/">>)
    /\ Len(st) >= 2

\* C7: when evaluation reaches a '/' whose right-hand operand is exactly
\* zero, the call fails with "division by zero" and returns no number; when
\* the right-hand operand is not zero, be the left-hand one zero or not, that
\* step does not fail.
C7_DivisionByZero ==
    [][AtDivision =>
          IF st[Len(st)] = Zero
          THEN pc' = "done" /\ val' = Zero /\ err' # nil
               /\ err'.msg = "division by zero"
          ELSE pc' = "evalRPN" /\ err' = nil
               /\ st' = Append(SubSeq(st, 1, Len(st) - 2),
                               FDiv(st[Len(st) - 1], st[Len(st)]))]_vars

\* The call on "1/(2-2)" has failed with "division by zero".
C7_Witness ==
    /\ expr = <<"1", "/", "(", "2", "-", "2", ")">>
    /\ Failed("division by zero")
    /\ site = "evalRPN:divide"

\* ------------------------------------------------------------------------
\* C8
\* ------------------------------------------------------------------------

\* The positions of a text that hold a character outside the alphabet.
Foreign(text) == {i \in 1..Len(text) : text[i] \notin Accepted}

\* C8: a text that, whitespace removed, holds a character outside the
\* alphabet fails with "bad char" naming the leftmost such character; and
\* the tokens the tokenizer returns are made of characters of the alphabet.
C8_UnexpectedCharacter ==
    /\ pc = "done" =>
          LET t == StripWhitespace(expr) IN
          Foreign(t) # {} =>
              /\ Failed("bad char: ")
              /\ err.arg = t[CHOOSE i \in Foreign(t) : \A j \in Foreign(t) : i <= j]
    /\ \A k \in 1..Len(toks) :
          \A j \in 1..Len(toks[k].val) : toks[k].val[j] \in Accepted

\* ------------------------------------------------------------------------
\* C9
\* ------------------------------------------------------------------------

\* C9: the call fails with "empty expression" exactly when nothing is left
\* of the text once its whitespace is removed.
C9_EmptyExpression ==
    pc = "done" =>
        (Failed("empty expression") <=> StripWhitespace(expr) = <<>>)

\* ------------------------------------------------------------------------
\* C10
\* ------------------------------------------------------------------------

\* C10: a text that begins with '+', '*' or '/' keeps that operator as its
\* first token, with no zero put before it, and the call on it always fails.
C10_LeadingOperatorFails ==
    (expr # <<>> /\ expr[1] \in {"+", "*", "/"}) =>
        /\ toks # <<>> => toks[1] = token(tOp, <<expr[1]>>)
        /\ pc = "done" => err # nil

\* ------------------------------------------------------------------------
\* C11
\* ------------------------------------------------------------------------

\* The text has a '-' at position p that opens it or directly follows a '('.
IsLeadingMinus(text, p) ==
    /\ p \in 1..Len(text)
    /\ text[p] = "-"
    /\ (p = 1 \/ text[p - 1] = "(")

\* The text with a "0" written before position p.
WithZeroBefore(text, p) ==
    SubSeq(text, 1, p - 1) \o <<"0">> \o SubSeq(text, p, Len(text))

\* The outcome of a call on a text: the number and the error.
Outcome(text) ==
    LET r == evalExpr(UTF8(text)) IN <<r.val, r.err>>

\* C11: a unary minus at the start of the text or directly after '(' negates
\* the term that follows: the call on "-E" ends as the call on "0-E" for
\* every E, and likewise after a '('; "-5+2" returns -3, "-(2+3)" returns
\* -5 and "2*(-3)" returns -6.
C11_LeadingMinus ==
    /\ pc = "done" =>
          \A p \in 1..Len(expr) :
              IsLeadingMinus(expr, p) =>
                  <<val, err>> = Outcome(WithZeroBefore(expr, p))
    /\ Outcome(<<"-", "5", "+", "2">>) = <<(<<-3, 1>>), nil>>
    /\ Outcome(<<"-", "(", "2", "+", "3", ")">>) = <<(<<-5, 1>>), nil>>
    /\ Outcome(<<"2", "*", "(", "-", "3", ")">>) = <<(<<-6, 1>>), nil>>

\* The call on "3*(-3)" has returned -9.
C11_Witness ==
    expr = <<"3", "*", "(", "-", "3", ")">> /\ Returned(<<-9, 1>>)

\* ------------------------------------------------------------------------
\* C14
\* ------------------------------------------------------------------------

\* The tokens the scanning loop of tokenize makes of a text, before the
\* rewrite.
Scanned(text) == ScanFrom(StripSpaces(UTF8(text)), 1, <<>>).toks

\* The call has passed tokenize without an error.
Tokenized == pc # "tokenize" /\ site \notin {"tokenize:empty", "tokenize:default"}

\* raw[i] is a '-' that is the first token or follows an Operator or LParen.
NeedsZero(raw, i) ==
    /\ raw[i] = token(tOp, <<"-">>)
    /\ (i = 1 \/ raw[i - 1].typ \in {tOp, tLParen})

\* The number of zeros due before the first i tokens of raw.
ZerosUpTo(raw, i) == Cardinality({j \in 1..i : NeedsZero(raw, j)})

\* C14: the rewrite puts Number("0") immediately before a '-' exactly when
\* that '-' is the first token or follows an Operator or LParen, and
\* otherwise keeps every token, in order and unaltered: the output is as
\* long as the input plus the number of such '-'.
C14_RewriteInsertsZeros ==
    Tokenized =>
        LET raw == Scanned(expr) IN
        /\ Len(toks) = Len(raw) + ZerosUpTo(raw, Len(raw))
        /\ \A i \in 1..Len(raw) :
              /\ toks[i + ZerosUpTo(raw, i)] = raw[i]
              /\ NeedsZero(raw, i) =>
                    toks[i + ZerosUpTo(raw, i) - 1] = token(tNumber, <<"0">>)

\* The call on "(-2)" has been tokenized as ( 0 - 2 ).
C14_Witness ==
    /\ expr = <<"(", "-", "2", ")">>
    /\ Tokenized
    /\ toks = <<token(tLParen, <<"(">>), token(tNumber, <<"0">>),
                token(tOp, <<"-">>), token(tNumber, <<"2">>),
                token(tRParen, <<")">>)>>

\* ------------------------------------------------------------------------
\* C15
\* ------------------------------------------------------------------------

\* The text holds a character that is neither of the alphabet nor whitespace.
HasForeignCharacter(text) ==
    \E i \in 1..Len(text) : text[i] \notin Accepted \cup Whitespace

\* The text is made of characters of the alphabet and spaces, and not of
\* spaces alone.
IsScannable(text) ==
    /\ \A i \in 1..Len(text) : text[i] \in Accepted \cup {" "}
    /\ \E i \in 1..Len(text) : text[i] # " "

\* C15: the failure of the earliest stage is the one reported, and no later
\* stage runs after a failure: a text with a foreign character fails with
\* "bad char" whatever its parentheses, a scannable text with unbalanced
\* parentheses fails with "mismatched parentheses" whatever its numbers and
\* operators ("(1/0", "(1.2.3"), a failed tokenize leaves the parser and the
\* evaluator untouched, a failed parse leaves the evaluator untouched, and
\* a failure carries the number 0.
C15_EarliestStageFails ==
    /\ (pc = "done" /\ err # nil) => val = Zero
    /\ site \in {"tokenize:empty", "tokenize:default"} =>
          /\ toks = <<>> /\ ti = 1 /\ out = <<>> /\ stack = <<>>
          /\ rpn = <<>> /\ ei = 1 /\ st = <<>>
    /\ site \in {"shuntingYard:rparen", "shuntingYard:drain"} =>
          rpn = <<>> /\ ei = 1 /\ st = <<>>
    /\ (pc = "done" /\ HasForeignCharacter(expr)) => Failed("bad char: ")
    /\ (pc = "done" /\ IsScannable(expr) /\ ~Balanced(expr)) =>
          Failed("mismatched parentheses")

\* The call on "(2/0" has failed with "mismatched parentheses", the
\* evaluator not having run.
C15_Witness ==
    /\ expr = <<"(", "2", "/", "0">>
    /\ Failed("mismatched parentheses")
    /\ st = <<>>

\* ------------------------------------------------------------------------
\* C16
\* ------------------------------------------------------------------------

\* The positions where a maximal run of digits and points of s begins.
RunStarts(s) ==
    {i \in 1..Len(s) : IsNumChar(s[i]) /\ (i = 1 \/ ~IsNumChar(s[i - 1]))}

\* The last position of the maximal run that begins at i.
RunLast(s, i) ==
    CHOOSE j \in i..Len(s) :
        /\ \A k \in i..j : IsNumChar(s[k])
        /\ (j = Len(s) \/ ~IsNumChar(s[j + 1]))

\* The k-th maximal run of s, as a substring.
Run(s, k) ==
    LET i == CHOOSE n \in RunStarts(s) :
                 Cardinality({m \in RunStarts(s) : m < n}) = k - 1
    IN  SubSeq(s, i, RunLast(s, i))

\* A run that is a decimal: digits with at most one point, and a digit.
IsDecimal(lit) ==
    /\ Cardinality({i \in 1..Len(lit) : lit[i] = "."}) <= 1
    /\ \E i \in 1..Len(lit) : IsDigit(lit[i])

\* The Number tokens of a token sequence.
NumberTokens(ts) == SelectSeq(ts, LAMBDA t : t.typ = tNumber)

\* The scan of a text yields one Number token per maximal run, holding it.
RunsAreTokens(text) ==
    LET s == StripSpaces(UTF8(text))
        nums == NumberTokens(Scanned(text))
    IN  /\ Len(nums) = Cardinality(RunStarts(s))
        /\ \A k \in 1..Len(nums) : nums[k] = token(tNumber, Run(s, k))

\* Once tokenize has succeeded, the Number tokens are the maximal runs of
\* the text; a text of characters of the alphabet is never refused by
\* tokenize, whatever its runs; "bad number" comes from the evaluator alone.
C16_RunsState ==
    /\ Tokenized => RunsAreTokens(expr)
    /\ (pc # "tokenize" /\ IsScannable(expr)) => Tokenized
    /\ Failed("bad number") =>
          /\ site = "evalRPN:number"
          /\ rpn[ei].typ = tNumber
          /\ ~IsDecimal(rpn[ei].val)
    /\ Scanned(<<"1", ".", "2", ".", "3">>)
          = <<token(tNumber, <<"1", ".", "2", ".", "3">>)>>
    /\ evalExpr(<<"1", ".", "2", ".", "3">>).site = "evalRPN:number"
    /\ evalExpr(<<".">>).site = "evalRPN:number"

\* A step of the evaluator on a Number token fails, with "bad number", if
\* and only if the token's run is not a decimal.
C16_RunsStep ==
    (pc = "evalRPN" /\ ei <= Len(rpn) /\ rpn[ei].typ = tNumber) =>
        IF IsDecimal(rpn[ei].val)
        THEN pc' = "evalRPN" /\ err' = nil /\ Len(st') = Len(st) + 1
        ELSE pc' = "done" /\ err'.msg = "bad number" /\ val' = Zero

\* C16: a maximal run of digits and '.' is one Number token holding the raw
\* substring, and tokenize never fails because of it; a run that is not a
\* decimal (more than one '.', a lone '.') is rejected by the evaluator
\* alone, with "bad number", when its token is reached in the postfix pass.
C16_NumberRuns == [](C16_RunsState) /\ [][C16_RunsStep]_vars

\* The call on "2..0" has made one token of the run and the evaluator has
\* refused it.
C16_Witness ==
    /\ expr = <<"2", ".", ".", "0">>
    /\ toks = <<token(tNumber, <<"2", ".", ".", "0">>)>>
    /\ Failed("bad number")

\* ------------------------------------------------------------------------
\* C17
\* ------------------------------------------------------------------------

\* The evaluator is about to read the postfix token rpn[ei].
AtToken(typ) == pc = "evalRPN" /\ ei <= Len(rpn) /\ rpn[ei].typ = typ

\* The evaluator has read every postfix token and is about to return.
AtReturn == pc = "evalRPN" /\ ei > Len(rpn)

\* A step of the evaluator that does not fail pushes one value on a Number
\* and replaces the two topmost values by one on an Operator; the return
\* succeeds, with the one value left, if and only if one value is left, and
\* fails with "bad expression" otherwise.
C17_StackStep ==
    /\ (AtToken(tNumber) /\ pc' = "evalRPN") =>
          /\ Len(st') = Len(st) + 1
          /\ SubSeq(st', 1, Len(st)) = st
    /\ (AtToken(tOp) /\ pc' = "evalRPN") =>
          /\ Len(st) >= 2
          /\ Len(st') = Len(st) - 1
          /\ SubSeq(st', 1, Len(st) - 2) = SubSeq(st, 1, Len(st) - 2)
    /\ AtReturn =>
          /\ pc' = "done"
          /\ IF Len(st) = 1
             THEN err' = nil /\ val' = st[1]
             ELSE err'.msg = "bad expression" /\ val' = Zero
                    /\ site' = "evalRPN:residue"

\* A call that returned a number ended its pass with one value, the number;
\* "()" ends with none and "(2)(3)" with two, and both fail.
C17_StackState ==
    /\ (pc = "done" /\ err = nil) =>
          ei = Len(rpn) + 1 /\ st = <<val>>
    /\ evalExpr(<<"(", ")">>).site = "evalRPN:residue"
    /\ evalExpr(<<"(", "2", ")", "(", "3", ")">>).site = "evalRPN:residue"

\* C17: in the postfix pass the operand stack grows by one on each Number
\* and shrinks by one (two pops, one push) on each Operator; the call
\* succeeds only if exactly one value remains after the last token, and a
\* pass that ends with no value or with more than one fails with
\* "bad expression" (MalformedExpression) instead of returning a number.
C17_OperandStack == [](C17_StackState) /\ [][C17_StackStep]_vars

\* The call on "2(2)" has ended its pass with two values and has failed.
C17_Witness ==
    /\ expr = <<"2", "(", "2", ")">>
    /\ Len(st) = 2
    /\ Failed("bad expression")
    /\ site = "evalRPN:residue"

\* ------------------------------------------------------------------------
\* C18
\* ------------------------------------------------------------------------

\* shuntingYard has returned its postfix output to evalExpr.
ShuntSucceeded ==
    \/ pc = "evalRPN"
    \/ pc = "done" /\ site \notin {"tokenize:empty", "tokenize:default",
                                   "shuntingYard:rparen", "shuntingYard:drain"}

IsParenToken(t) == t.typ \in {tLParen, tRParen}

\* How many times the token t occurs in ts.
Occurrences(ts, t) == Cardinality({i \in 1..Len(ts) : ts[i] = t})

\* The index of the topmost '(' of the stack, or 0.
OpenParen(stk) ==
    IF \E k \in 1..Len(stk) : stk[k].typ = tLParen
    THEN CHOOSE k \in 1..Len(stk) :
             /\ stk[k].typ = tLParen
             /\ \A m \in (k + 1)..Len(stk) : stk[m].typ # tLParen
    ELSE 0

\* ts, last entry first.
Reversed(ts) == [i \in 1..Len(ts) |-> ts[Len(ts) + 1 - i]]

\* The postfix output holds no parenthesis, holds the Number and Operator
\* tokens of the input as often as the input does, and holds the Number
\* tokens in the order of the input.
C18_OutputState ==
    ShuntSucceeded =>
        /\ \A i \in 1..Len(rpn) : ~IsParenToken(rpn[i])
        /\ Len(rpn) = Len(toks) - Len(SelectSeq(toks, IsParenToken))
        /\ \A i \in 1..Len(toks) :
              ~IsParenToken(toks[i]) =>
                  Occurrences(rpn, toks[i]) = Occurrences(toks, toks[i])
        /\ NumberTokens(rpn) = NumberTokens(toks)

\* While a '(' is open, a token other than ')' leaves the '(' and all that
\* was pushed before it on the stack, and the matching ')' emits what was
\* pushed after the '(' and nothing else.
C18_OutputStep ==
    (pc = "shuntingYard" /\ ti <= Len(toks) /\ OpenParen(stack) > 0) =>
        LET k == OpenParen(stack) IN
        IF toks[ti].typ = tRParen
        THEN /\ stack' = SubSeq(stack, 1, k - 1)
             /\ out' = out \o Reversed(SubSeq(stack, k + 1, Len(stack)))
        ELSE /\ Len(stack') >= k
             /\ SubSeq(stack', 1, k) = SubSeq(stack, 1, k)
             /\ Len(out') >= Len(out)
             /\ SubSeq(out', 1, Len(out)) = out

\* C18: whenever shuntingYard succeeds, its postfix output contains no
\* parenthesis token, contains exactly the Number and Operator tokens of
\* its input (same multiset, so its length is the input's less the
\* parentheses), and lists the Number tokens in the order of the input;
\* operators pushed before an open '(' are not emitted before its matching
\* ')' is processed.
C18_PostfixOutput == [](C18_OutputState) /\ [][C18_OutputStep]_vars

\* shuntingYard has turned 2*(3+4) into 2 3 4 + *.
C18_Witness ==
    /\ expr = <<"2", "*", "(", "3", "+", "4", ")">>
    /\ pc = "evalRPN"
    /\ rpn = <<token(tNumber, <<"2">>), token(tNumber, <<"3">>),
               token(tNumber, <<"4">>), token(tOp, <<"+">>),
               token(tOp, <<"*">>)>>

\* ------------------------------------------------------------------------
\* Concurrent and repeated calls of evalExpr
\* ------------------------------------------------------------------------

\* The callers, each running one call of evalExpr at a time.
Callers == 1..NumCallers

\* The texts the callers evaluate: a sum, a text that leaves no value, an
\* open parenthesis and a division by zero.
ConcTexts ==
    { <<"2", "+", "2">>, <<"(", ")">>, <<"(", "2">>, <<"2", "/", "0">> }

\* The locals of a call entered with the text e.
Enter(e) ==
    [expr |-> e, pc |-> "tokenize", toks |-> <<>>, ti |-> 1, out |-> <<>>,
     stack |-> <<>>, rpn |-> <<>>, ei |-> 1, st |-> <<>>, val |-> Zero,
     err |-> nil, site |-> ""]

\* NewCall that finds the operand stack as the caller's last call left it.
NewCallKeepingStack(old, e) == [Enter(e) EXCEPT !.st = old.st]

\* The locals of the call a caller makes after its call with the locals old.
NewCall(old, e) == Enter(e)

\* The locals l after the return of the error e at the return statement s.
Failing(l, e, s) == [l EXCEPT !.pc = "done", !.val = Zero, !.err = e, !.site = s]

\* The locals l after the next step of their call: tokenize, an iteration
\* or the final loop of shuntingYard, an iteration or the return of evalRPN.
Advance(l) ==
    CASE l.pc = "tokenize" ->
            LET r == tokenize(UTF8(l.expr)) IN
            IF r.err # nil THEN Failing(l, r.err, r.site)
            ELSE [l EXCEPT !.pc = "shuntingYard", !.toks = r.toks]
      [] l.pc = "shuntingYard" /\ l.ti <= Len(l.toks) ->
            LET r == ShuntToken(l.toks[l.ti], l.out, l.stack) IN
            IF r.err # nil
            THEN [Failing(l, r.err, r.site) EXCEPT !.out = r.out, !.stack = r.stack]
            ELSE [l EXCEPT !.out = r.out, !.stack = r.stack, !.ti = l.ti + 1]
      [] l.pc = "shuntingYard" /\ l.ti > Len(l.toks) ->
            LET r == Drain(l.out, l.stack) IN
            IF r.err # nil
            THEN [Failing(l, r.err, r.site) EXCEPT !.out = r.out, !.stack = r.stack]
            ELSE [l EXCEPT !.out = r.out, !.stack = r.stack,
                           !.pc = "evalRPN", !.rpn = r.out]
      [] l.pc = "evalRPN" /\ l.ei <= Len(l.rpn) ->
            LET r == EvalToken(l.rpn[l.ei], l.st) IN
            IF r.err # nil
            THEN [Failing(l, r.err, r.site) EXCEPT !.st = r.st]
            ELSE [l EXCEPT !.st = r.st, !.ei = l.ei + 1]
      [] l.pc = "evalRPN" /\ l.ei > Len(l.rpn) ->
            LET r == EvalReturn(l.st) IN
            [l EXCEPT !.pc = "done", !.val = r.val, !.err = r.err, !.site = r.site]
      [] OTHER -> l

InitConc ==
    /\ Entered(<<>>)
    /\ NoCrypto
    /\ NoUpdates
    /\ calls \in [Callers -> {Enter(e) : e \in ConcTexts}]
    /\ round = [c \in Callers |-> 1]

\* The call of caller c takes its next step.
CallStep(c) ==
    /\ calls[c].pc # "done"
    /\ calls' = [calls EXCEPT ![c] = Advance(calls[c])]
    /\ UNCHANGED <<round, single, encVars, botVars>>

\* Caller c, its call having returned, calls evalExpr again, with the text e.
CallAgain(c, e) ==
    /\ calls[c].pc = "done"
    /\ round[c] < MaxCalls
    /\ calls' = [calls EXCEPT ![c] = NewCall(calls[c], e)]
    /\ round' = [round EXCEPT ![c] = round[c] + 1]
    /\ UNCHANGED <<single, encVars, botVars>>

NextConc ==
    \/ \E c \in Callers : CallStep(c)
    \/ \E c \in Callers, e \in ConcTexts : CallAgain(c, e)

SpecConc == InitConc /\ [][NextConc]_vars

\* ------------------------------------------------------------------------
\* C12
\* ------------------------------------------------------------------------

\* Every call that has returned has returned what the text alone decides,
\* and a call that has just been entered holds nothing of an earlier call.
C12_OutcomeState ==
    \A c \in Callers :
        /\ calls[c].pc = "done" =>
              <<calls[c].val, calls[c].err>> = Outcome(calls[c].expr)
        /\ calls[c].pc = "tokenize" => calls[c] = Enter(calls[c].expr)

\* A step of one call leaves the locals of every other call as they are.
C12_OutcomeStep ==
    \A c \in Callers :
        calls'[c] # calls[c] =>
            \A d \in Callers \ {c} : calls'[d] = calls[d]

\* C12: the outcome of evalExpr(s) depends on s alone: repeated calls with
\* the same text, and calls whose steps are interleaved with the steps of
\* other calls, return the same outcome, each call having its own tokens,
\* operator stack and operand stack, and nothing outliving a call.
C12_OutcomeDependsOnText == [](C12_OutcomeState) /\ [][C12_OutcomeStep]_vars

\* Two callers have each made a second call, on "()", and both calls have
\* failed with "bad expression".
C12_Witness ==
    /\ \A c \in {1, 2} :
          /\ round[c] = 2
          /\ calls[c].expr = <<"(", ")">>
          /\ calls[c].pc = "done"
          /\ calls[c].err.msg = "bad expression"

\* ------------------------------------------------------------------------
\* encryptAESGCM and decryptAESGCM
\* ------------------------------------------------------------------------
\* A byte is a record, so that any two bytes can be compared: a byte that
\* rand.Read wrote holds its value in i; byte i of what gcm.Seal returns is
\* a function of the key, the nonce and the plaintext, and is written as
\* that: the first len(plaintext) bytes are the ciphertext, the following
\* TagSize bytes the tag.

\* gcm.NonceSize() and gcm.Overhead() of cipher.NewGCM.
NonceSize == 12
TagSize == 16

\* The key main decodes from ENC_KEY_B64 and hands to every call; main has
\* checked its length, so aes.NewCipher and cipher.NewGCM return no error.
Key == "ENC_KEY_B64"

RandByte(b) == [kind |-> "rand", k |-> "", n |-> <<>>, pt |-> <<>>, i |-> b]

\* What rand.Read can leave in nonce: every byte is any byte; the model
\* draws from the nonces whose bytes all hold the same value.
Nonces == {[i \in 1..NonceSize |-> RandByte(b)] : b \in 0..MaxNonceByte}

\* The outcomes of rand.Read(nonce): the bytes written and the error.
RandReads ==
    {[nonce |-> n, err |-> nil] : n \in Nonces}
        \cup {[nonce |-> [i \in 1..NonceSize |-> RandByte(0)],
               err |-> [msg |-> "rand.Read", arg |-> ""]]}

\* The plaintexts: the empty one and a marshalled payload, shortened.
Plaintexts == {<<>>, <<"{", "}">>}

\* gcm.Seal(nil, nonce, plaintext, nil)
Seal(key, nonce, plaintext) ==
    [i \in 1..(Len(plaintext) + TagSize) |->
        [kind |-> IF i <= Len(plaintext) THEN "ct" ELSE "tag",
         k |-> key, n |-> nonce, pt |-> plaintext, i |-> i]]

\* gcm.Open(nil, nonce, ct, nil)
Open(key, nonce, ct) ==
    IF \E pt \in Plaintexts : Seal(key, nonce, pt) = ct
    THEN [plaintext |-> CHOOSE pt \in Plaintexts : Seal(key, nonce, pt) = ct,
          err |-> nil]
    ELSE [plaintext |-> <<>>,
          err |-> [msg |-> "cipher: message authentication failed", arg |-> ""]]

\* encryptAESGCM that returns the sealed data first and the nonce last.
encryptAESGCMSealFirst(key, plaintext, rnd) ==
    IF rnd.err # nil THEN [data |-> <<>>, err |-> rnd.err]
    ELSE [data |-> Seal(key, rnd.nonce, plaintext) \o rnd.nonce, err |-> nil]

\* encryptAESGCM, rnd being the outcome of its call of rand.Read.
encryptAESGCM(key, plaintext, rnd) ==
    IF rnd.err # nil THEN [data |-> <<>>, err |-> rnd.err]
    ELSE [data |-> rnd.nonce \o Seal(key, rnd.nonce, plaintext), err |-> nil]

decryptAESGCM(key, data) ==
    IF Len(data) < NonceSize
    THEN [plaintext |-> <<>>, err |-> [msg |-> "ciphertext too short", arg |-> ""]]
    ELSE Open(key, SubSeq(data, 1, NonceSize),
              SubSeq(data, NonceSize + 1, Len(data)))

\* The calls of encryptAESGCM that returned a ciphertext.
Produced == {i \in 1..Len(sealed) : sealed[i].ret.err = nil}

\* What decryptAESGCM is given: a ciphertext that encryptAESGCM returned,
\* whole, without its last byte, or cut to less than a nonce.
Stored ==
    UNION {{sealed[i].ret.data,
            SubSeq(sealed[i].ret.data, 1, Len(sealed[i].ret.data) - 1),
            SubSeq(sealed[i].ret.data, 1, NonceSize - 1)} : i \in Produced}

InitCrypto ==
    /\ Entered(<<>>)
    /\ NoCallers
    /\ NoUpdates
    /\ sealed = <<>>
    /\ opened = <<>>

\* A call of encryptAESGCM under the key.
Encrypt ==
    /\ Len(sealed) < MaxSealed
    /\ \E pt \in Plaintexts, rnd \in RandReads :
          sealed' = Append(sealed, [plaintext |-> pt, rnd |-> rnd,
                                    ret |-> encryptAESGCM(Key, pt, rnd)])
    /\ UNCHANGED <<opened, single, concVars, botVars>>

\* A call of decryptAESGCM under the key.
Decrypt ==
    /\ \E d \in Stored :
          opened' = <<[data |-> d, ret |-> decryptAESGCM(Key, d)]>>
    /\ UNCHANGED <<sealed, single, concVars, botVars>>

NextCrypto == Encrypt \/ Decrypt

SpecCrypto == InitCrypto /\ [][NextCrypto]_vars

\* ------------------------------------------------------------------------
\* C13
\* ------------------------------------------------------------------------

\* What the call sealed[i] returned is the nonce its rand.Read drew, followed
\* by the sealed plaintext, and decryptAESGCM, which takes the first
\* NonceSize bytes for the nonce, gives the plaintext back.
HasLayout(i) ==
    LET e == sealed[i]
        data == e.ret.data
    IN  /\ Len(data) = NonceSize + Len(e.plaintext) + TagSize
        /\ SubSeq(data, 1, NonceSize) = e.rnd.nonce
        /\ SubSeq(data, NonceSize + 1, Len(data))
              = Seal(Key, e.rnd.nonce, e.plaintext)
        /\ decryptAESGCM(Key, data) = [plaintext |-> e.plaintext, err |-> nil]

\* C13, as stated: across any sequence of encrypt calls under the same key,
\* every produced ciphertext has the layout nonce followed by sealed data,
\* and no two calls ever use the same nonce.
C13_NonceNeverReused ==
    /\ \A i \in Produced : HasLayout(i)
    /\ \A i, j \in Produced :
          i # j => sealed[i].rnd.nonce # sealed[j].rnd.nonce

\* Every produced ciphertext is the nonce of its call followed by the
\* sealed data; decryptAESGCM opens what encryptAESGCM returned, and nothing
\* shorter.
C13_LayoutState ==
    /\ \A i \in Produced : HasLayout(i)
    /\ \A i \in 1..Len(sealed) :
          sealed[i].ret.err # nil => sealed[i].ret.data = <<>>
    /\ opened # <<>> =>
          (opened[1].ret.err = nil
              <=> \E i \in Produced : opened[1].data = sealed[i].ret.data)

\* A call of encryptAESGCM draws its nonce from rand.Read in the call, and
\* leaves what earlier calls returned as it is.
C13_LayoutStep ==
    sealed' # sealed =>
        /\ Len(sealed') = Len(sealed) + 1
        /\ SubSeq(sealed', 1, Len(sealed)) = sealed
        /\ sealed'[Len(sealed')].rnd \in RandReads

\* C13, amended: across any sequence of encrypt calls under the same key,
\* every produced ciphertext is the nonce that rand.Read drew in its call
\* followed by the sealed data; the nonce is drawn anew in each call, and
\* nothing keeps two calls from drawing the same.
C13_NonceThenSealed == [](C13_LayoutState) /\ [][C13_LayoutStep]_vars

\* Two calls have produced ciphertexts under the same nonce, each with the
\* layout, and the second has been opened.
C13_Witness ==
    /\ Len(sealed) >= 2
    /\ {1, 2} \subseteq Produced
    /\ sealed[1].rnd.nonce = sealed[2].rnd.nonce
    /\ sealed[1].plaintext # sealed[2].plaintext
    /\ opened # <<>>
    /\ opened[1].data = sealed[2].ret.data
    /\ opened[1].ret.plaintext = sealed[2].plaintext

\* ------------------------------------------------------------------------
\* handleMessage and handleCallback
\* ------------------------------------------------------------------------
\* An update is a message or a callback query of a user, in the user's
\* private chat.  A message has a text, the command its text begins with
\* ("" where it is no command) and the media it carries.  What bot.Send is
\* given is written as the kind of the message, named after the branch that
\* sends it, and the part of its text that is computed.

ModeNone == 0
ModeCalcAwaitExpr == 1
ModeNoteAwaitContent == 2

Users == 1..NumUsers

\* The labels of the menu buttons, each shortened to its first character.
btnCalc == <<"U+1F9EE">>
btnPass == <<"U+1F510">>
btnNotes == <<"U+1F4DD">>

\* unicode.IsSpace, on the characters of the model.
IsSpace(c) == c \in {" ", "\t", "\n", "\r"}

RECURSIVE TrimLeft(_)
TrimLeft(text) ==
    IF text # <<>> /\ IsSpace(Head(text)) THEN TrimLeft(Tail(text)) ELSE text

RECURSIVE TrimRight(_)
TrimRight(text) ==
    IF text # <<>> /\ IsSpace(text[Len(text)])
    THEN TrimRight(SubSeq(text, 1, Len(text) - 1))
    ELSE text

\* strings.TrimSpace
TrimSpace(text) == TrimRight(TrimLeft(text))

RECURSIVE FracDigits(_, _)
\* The digits after the point of r/d, for 0 <= r < d, where they end.
FracDigits(r, d) ==
    IF r = 0 THEN <<>>
    ELSE <<DigitChar((r * 10) \div d)>> \o FracDigits((r * 10) % d, d)

\* strconv.FormatFloat(v, 'f', -1, 64), for the numbers whose decimal
\* expansion ends: the shortest digits that give v back are that expansion.
trimFloat(v) ==
    LET n == Abs(v[1])
        frac == FracDigits(n % v[2], v[2])
    IN  (IF v[1] < 0 THEN <<"-">> ELSE <<>>)
            \o Decimal(n \div v[2])
            \o (IF frac = <<>> THEN <<>> ELSE <<".">> \o frac)

\* err.Error()
ErrorText(e) == <<e.msg, e.arg>>

\* The texts of the messages: expressions that evaluate, with and without
\* whitespace around them, expressions that fail, empty texts, a word, and
\* the button labels.
MessageTexts ==
    { <<"2", "+", "2">>, <<"1", "/", "2">>, <<"\t", "2", "-", "3", " ">>,
      <<"2", "+">>, <<"1", "/", "0">>, <<"2", "\t", "2">>,
      <<>>, <<" ">>, <<"h", "i">>,
      btnCalc, <<" ">> \o btnCalc, btnPass, btnNotes }

Messages ==
    {[command |-> "", text |-> t, media |-> "none"] : t \in MessageTexts}
        \cup {[command |-> "start", text |-> <<"/", "s", "t", "a", "r", "t">>,
               media |-> "none"],
              [command |-> "create_note",
               text |-> <<"/", "c", "r", "e", "a", "t", "e", "_", "n", "o", "t", "e">>,
               media |-> "none"],
              [command |-> "", text |-> <<>>, media |-> "photo"],
              [command |-> "", text |-> <<>>, media |-> "voice"]}

\* The data of the callback queries: the three buttons of the notes menu, a
\* button of the list of notes, and data of no button.
CallbackData == {"notes:create", "notes:cancel", "notes:read", "note:1", "x"}

\* strings.HasPrefix(data, "note:"), and the id strconv.ParseInt reads.
HasNotePrefix(data) == data = "note:1"
NoteIdOf(data) == IF data = "note:1" THEN 1 ELSE 0

Send(to, kind, body) == [to |-> to, kind |-> kind, body |-> body]

\* EnsureState that makes a map anew, every user in ModeNone.
EnsureStateAnew(sts, userID) ==
    [u \in DOMAIN sts \cup {userID} |-> ModeNone]

\* st := states[userID], made and stored where it is nil.
EnsureState(sts, userID) ==
    IF userID \in DOMAIN sts THEN sts
    ELSE [u \in DOMAIN sts \cup {userID} |->
             IF u = userID THEN ModeNone ELSE sts[u]]

\* The mode the notes button leaves, were it to await the note's content.
ModeAfterNotesAwaiting == ModeNoteAwaitContent

\* st.Mode = ModeNone of the case btnNotes.
ModeAfterNotes == ModeNone

messageToPayload(m) ==
    IF m.media = "voice"
    THEN [payload |-> [kind |-> "voice", text |-> <<>>], err |-> nil]
    ELSE IF m.media = "photo"
    THEN [payload |-> [kind |-> "photo", text |-> <<>>], err |-> nil]
    ELSE IF TrimSpace(m.text) # <<>>
    THEN [payload |-> [kind |-> "text", text |-> m.text], err |-> nil]
    ELSE [payload |-> [kind |-> "", text |-> <<>>],
          err |-> [msg |-> "unsupported", arg |-> ""]]

\* json.Marshal(payload)
Marshal(payload) == <<"{", payload.kind, ":">> \o payload.text \o <<"}">>

\* saveNote: the rows of the table afterwards, and the error.
saveNote(nts, key, userID, payload, rnd) ==
    LET enc == encryptAESGCM(key, Marshal(payload), rnd) IN
    IF enc.err # nil THEN [notes |-> nts, err |-> enc.err]
    ELSE [notes |-> Append(nts, [id |-> Len(nts) + 1, user_id |-> userID,
                                  payload_enc |-> enc.data]),
          err |-> nil]

\* handleMessage on the message m of the user userID, rnd being the outcome
\* of rand.Read should it be called: the map, the table and what was sent.
handleMessage(sts, nts, userID, m, rnd) ==
    LET ust == EnsureState(sts, userID)
        Ends(mode, kind, body) ==
            [states |-> [ust EXCEPT ![userID] = mode], notes |-> nts,
             sent |-> <<Send(userID, kind, body)>>]
        Returns(kind, body) == Ends(ust[userID], kind, body)
        text == TrimSpace(m.text)
    IN  IF m.command = "start" THEN Ends(ModeNone, "start", <<>>)
        ELSE IF text = btnCalc THEN Ends(ModeCalcAwaitExpr, "calc:prompt", <<>>)
        ELSE IF text = btnPass THEN Ends(ModeNone, "password", <<>>)
        ELSE IF text = btnNotes THEN Ends(ModeAfterNotes, "notes:menu", <<>>)
        ELSE IF ust[userID] = ModeCalcAwaitExpr
        THEN IF text = <<>> THEN Returns("calc:empty", <<>>)
             ELSE LET r == evalExpr(UTF8(text)) IN
                  IF r.err # nil THEN Returns("calc:error", ErrorText(r.err))
                  ELSE Ends(ModeNone, "calc:result", <<"=", " ">> \o trimFloat(r.val))
        ELSE IF ust[userID] = ModeNoteAwaitContent
        THEN LET p == messageToPayload(m) IN
             IF p.err # nil THEN Returns("note:unsupported", <<>>)
             ELSE LET sv == saveNote(nts, Key, userID, p.payload, rnd) IN
                  IF sv.err # nil
                  THEN Returns("note:failed", ErrorText(sv.err))
                  ELSE [states |-> [ust EXCEPT ![userID] = ModeNone],
                        notes |-> sv.notes,
                        sent |-> <<Send(userID, "note:saved", <<>>)>>]
        ELSE Returns("fallback", <<>>)

\* listNotes: the rows of the user.
listNotes(nts, userID) == SelectSeq(nts, LAMBDA r : r.user_id = userID)

\* handleCallback on the data of a callback query of the user userID: what
\* was sent.  It is handed neither the map states nor a way to the table
\* but reading.
handleCallback(nts, userID, data) ==
    CASE data = "notes:create" -> <<Send(userID, "notes:howto", <<>>)>>
      [] data = "notes:cancel" -> <<>>
      [] data = "notes:read" ->
            IF listNotes(nts, userID) = <<>>
            THEN <<Send(userID, "notes:none", <<>>)>>
            ELSE <<Send(userID, "notes:list", <<>>)>>
      [] OTHER ->
            IF ~HasNotePrefix(data) THEN <<>>
            ELSE LET rows == SelectSeq(listNotes(nts, userID),
                                       LAMBDA r : r.id = NoteIdOf(data))
                 IN  IF rows = <<>>
                     THEN <<Send(userID, "note:unopened", <<>>)>>
                     ELSE LET d == decryptAESGCM(Key, rows[1].payload_enc) IN
                          IF d.err # nil
                          THEN <<Send(userID, "note:unopened", ErrorText(d.err))>>
                          ELSE <<Send(userID, "note:shown", d.plaintext)>>

InitBot ==
    /\ Entered(<<>>)
    /\ NoCallers
    /\ NoCrypto
    /\ states = <<>>
    /\ notes = <<>>
    /\ upd = <<>>
    /\ sent = <<>>

\* The loop of main receives a message and handles it.
HandleMessage ==
    /\ \E userID \in Users, m \in Messages, rnd \in RandReads :
          LET r == handleMessage(states, notes, userID, m, rnd) IN
          /\ states' = r.states
          /\ notes' = r.notes
          /\ sent' = r.sent
          /\ upd' = <<[kind |-> "message", from |-> userID, message |-> m,
                       data |-> ""]>>
    /\ UNCHANGED <<single, concVars, encVars>>

\* The loop of main receives a callback query and handles it.
HandleCallback ==
    /\ \E userID \in Users, data \in CallbackData :
          /\ sent' = handleCallback(notes, userID, data)
          /\ upd' = <<[kind |-> "callback", from |-> userID,
                       message |-> [command |-> "", text |-> <<>>, media |-> "none"],
                       data |-> data]>>
    /\ UNCHANGED <<states, notes, single, concVars, encVars>>

NextBot == HandleMessage \/ HandleCallback

SpecBot == InitBot /\ [][NextBot]_vars

\* ------------------------------------------------------------------------
\* C19
\* ------------------------------------------------------------------------

IsPlainMessage(m) ==
    /\ m.command # "start"
    /\ TrimSpace(m.text) \notin {btnCalc, btnPass, btnNotes}

\* The text is empty but for whitespace.
IsBlank(text) == \A i \in 1..Len(text) : text[i] \in Whitespace

\* What the step that handles a message of the user u does: the calculator
\* button puts u in ModeCalcAwaitExpr; a message of u in that mode that is
\* neither /start nor a menu button gets the result, and ModeNone, where
\* its text evaluates, and an error message, and the same mode, where the
\* text is blank or fails; the other users' entries stay as they are.
C20_CalcStep ==
    (upd' # <<>>) =>
        LET u == upd'[1].from
            m == upd'[1].message
            o == Outcome(TrimSpace(m.text))
        IN  IF upd'[1].kind = "callback" THEN states' = states
            ELSE
            /\ (m.command # "start" /\ TrimSpace(m.text) = btnCalc) =>
                  states'[u] = ModeCalcAwaitExpr
            /\ (/\ u \in DOMAIN states
                /\ states[u] = ModeCalcAwaitExpr
                /\ IsPlainMessage(m)) =>
                  IF ~IsBlank(m.text) /\ o[2] = nil
                  THEN /\ sent' = <<Send(u, "calc:result",
                                         <<"=", " ">> \o trimFloat(o[1]))>>
                       /\ states'[u] = ModeNone
                  ELSE /\ Len(sent') = 1
                       /\ sent'[1].to = u
                       /\ sent'[1].kind
                             = (IF IsBlank(m.text) THEN "calc:empty" ELSE "calc:error")
                       /\ states'[u] = ModeCalcAwaitExpr
            /\ \A v \in Users \ {u} :
                  /\ v \in DOMAIN states' <=> v \in DOMAIN states
                  /\ v \in DOMAIN states => states'[v] = states[v]

\* The results are sent as the numbers are written: 4, 0.5, -1.
C20_CalcState ==
    /\ trimFloat(<<4, 1>>) = <<"4">>
    /\ trimFloat(<<1, 2>>) = <<"0", ".", "5">>
    /\ trimFloat(<<-1, 1>>) = <<"-", "1">>
    /\ \A i \in 1..Len(sent) :
          sent[i].kind = "calc:error" => sent[i].body # ErrorText(nil)

\* C20: after a user presses the calculator button their mode is
\* ModeCalcAwaitExpr, and for every following message of that user that is
\* neither /start nor a menu button: if the expression evaluates, the result
\* is sent and the mode returns to ModeNone, and if the text is empty or the
\* evaluation fails, an error message is sent and the mode stays
\* ModeCalcAwaitExpr; a message of one user never changes another's mode.
C20_CalcMode == [](C20_CalcState) /\ [][C20_CalcStep]_vars

\* User 1, awaiting an expression, has sent "1/2" and has been sent "= 0.5"
\* and put back in ModeNone, while user 2 still awaits an expression.
C20_Witness ==
    /\ upd # <<>>
    /\ upd[1].kind = "message"
    /\ upd[1].from = 1
    /\ upd[1].message.text = <<"1", "/", "2">>
    /\ sent = <<Send(1, "calc:result", <<"=", " ", "0", ".", "5">>)>>
    /\ DOMAIN states = Users
    /\ states[1] = ModeNone
    /\ states[2] = ModeCalcAwaitExpr

====
